---- MODULE Spec2Model ----
(***************************************************************************)
(* Settlement engine of the e-commerce backend                             *)
(* (src/orders/settlement_service.py, src/orders/models.py,                *)
(* src/users/razorpay_service.py, src/orders/views.py).                    *)
(*                                                                         *)
(* The ledger is a relational store: every request handler works on        *)
(* in-memory copies of rows (model instances) and writes them back with    *)
(* save().  process_settlement runs under @transaction.atomic: its writes  *)
(* are buffered per request and become visible at commit, or are discarded *)
(* when an exception leaves the function.  Reads see committed rows plus   *)
(* the request's own writes (READ COMMITTED); a row written by an open     *)
(* transaction is locked against other writers until that transaction      *)
(* ends.  The payment gateway is outside the store: a transfer it created  *)
(* is not undone by a rollback.                                            *)
(*                                                                         *)
(* settlement_service.py, serializers.py and admin.py address the order's  *)
(* payee as order.vendor / order.vendor_settlement_amount, models.py       *)
(* declares the same columns as admin / admin_settlement_amount.  The      *)
(* model follows the service and uses the vendor names for both.           *)
(* Likewise razorpay_webhook looks the order up by razorpay_order_id, a    *)
(* column models.py does not declare; the model follows the view and       *)
(* gives every order a gateway reference, its own id.                      *)
(*                                                                         *)
(* Money is an integer number of hundredths of a paisa, so that            *)
(* total_price * pct / 100 is exact; a DecimalField(decimal_places=2)      *)
(* column holds multiples of 100 (whole paise).                            *)
(***************************************************************************)
EXTENDS Integers, Sequences, FiniteSets, TLC

\* ---------------------------------------------------------------- bounds
MaxCalls == 3          \* service calls started in one behaviour of Spec
MaxAdminEdits == 1     \* admin-site edits in one behaviour of Spec
MaxSeqCalls == 5       \* service calls in one behaviour of SpecSeq
MaxSeqAdminEdits == 4  \* admin-site edits in one behaviour of SpecSeq
MaxTotalPaise == 130   \* largest order total (paise) of the commission runs

Orders == {1, 2}
Procs == {1, 2}        \* request handlers that may run concurrently

Null == [null |-> TRUE]

\* ------------------------------------------------------------ vendors
\* users/models.py VendorAccount rows (read-only for the settlement core).
VendorIds == 1 .. 5

VendorAccount(v) ==
    CASE v = 1 -> [kyc_verified |-> TRUE,  razorpay_account_id |-> "acc_1",
                   account_status |-> "active",    commission_percentage |-> 2]
      [] v = 2 -> [kyc_verified |-> TRUE,  razorpay_account_id |-> "acc_2",
                   account_status |-> "active",    commission_percentage |-> 5]
      [] v = 3 -> [kyc_verified |-> FALSE, razorpay_account_id |-> "acc_3",
                   account_status |-> "active",    commission_percentage |-> 2]
      [] v = 4 -> [kyc_verified |-> TRUE,  razorpay_account_id |-> "",
                   account_status |-> "active",    commission_percentage |-> 2]
      [] v = 5 -> [kyc_verified |-> TRUE,  razorpay_account_id |-> "acc_5",
                   account_status |-> "suspended", commission_percentage |-> 2]

NoVendor == 0

\* ------------------------------------------------------- decimal columns
\* DecimalField(max_digits=10, decimal_places=2): the value written by
\* save() is quantized to two fraction digits, ties to even.
Quantize(x) ==
    LET q == x \div 100
        r == x % 100
    IN  IF r < 50 THEN q * 100
        ELSE IF r > 50 THEN (q + 1) * 100
        ELSE IF q % 2 = 0 THEN q * 100 ELSE (q + 1) * 100

\* Order.calculate_commission: the percentage is the literal 2.0.
commission_percentage == 2

calculate_commission(order) ==
    LET commission_amount == (order.total_price * commission_percentage) \div 100
    IN  [order EXCEPT !.commission_amount = commission_amount,
                      !.vendor_settlement_amount =
                          order.total_price - commission_amount]

\* Model.save() of an Order: every column is written from the instance.
SavedOrder(order) ==
    [order EXCEPT !.commission_amount = Quantize(order.commission_amount),
                  !.vendor_settlement_amount =
                      Quantize(order.vendor_settlement_amount)]

\* Model.save() of a PaymentSettlement.
SavedSettlement(s) ==
    [s EXCEPT !.commission_amount = Quantize(s.commission_amount),
              !.settlement_amount = Quantize(s.settlement_amount)]

\* An order as OrderViewSet.create leaves it (views.py:249-258): created
\* (the two amounts default to 0), then calculate_commission() called eagerly,
\* which saves it.
CreatedOrder(id, vendor, status, paise, payment_id) ==
    [order_id |-> id, vendor |-> vendor, status |-> status,
     total_price |-> paise * 100,
     commission_amount |-> 0, vendor_settlement_amount |-> 0,
     settlement_status |-> "pending",
     razorpay_payment_id |-> payment_id,
     razorpay_transfer_id |-> 0, settled_at |-> FALSE,
     is_active |-> TRUE]

NewOrder(id, vendor, status, paise, payment_id) ==
    SavedOrder(calculate_commission(CreatedOrder(id, vendor, status, paise, payment_id)))

\* The orders a behaviour may start from: order 1 is any of these, order 2 one
\* of the first three.
OrderProfiles(id) ==
    << NewOrder(id, 1, "Delivered", 99999, "pay"),
       NewOrder(id, 1, "Delivered", 99999, ""),
       NewOrder(id, 3, "Delivered", 99999, "pay"),
       NewOrder(id, 2, "Delivered", 25, "pay"),
       NewOrder(id, 1, "Shipped", 99999, "pay"),
       NewOrder(id, NoVendor, "Delivered", 99999, "pay"),
       NewOrder(id, 4, "Delivered", 99999, "pay"),
       NewOrder(id, 5, "Delivered", 99999, "pay") >>

\* ------------------------------------------------------------- state
VARIABLES
    orders,        \* committed Order rows, by order_id
    settlements,   \* committed PaymentSettlement rows, by settlement_id
    transfers,     \* gateway: transfers created, in order of creation
    createCalls,   \* adapter: create_transfer calls, per order
    reverseCalls,  \* gateway: reverse_transfer calls
    calls,         \* service calls started
    adminEdits,    \* admin-site edits made
    pc,            \* per request handler: position in its code
    op,            \* per request handler: the service call it executes
    arg,           \* per request handler: the order_id or settlement_id it was called with
    ord,           \* per request handler: the Order instance it holds
    stl,           \* per request handler: the PaymentSettlement instance it holds
    txOrd,         \* per request handler: the Order row its open transaction has written (locked)
    txStl,         \* per request handler: the PaymentSettlement row its open transaction has written
    queue,         \* auto-settle: Order instances still to process
    results,       \* auto-settle: the summary being built
    ret,           \* per request handler: outcome of its last finished call
    cart,          \* the buyer's CartItem rows: is_active, by cart item
    stock,         \* Product.stock, by product
    outbox,        \* notifications and mails emitted, counted by kind
    webhook_secret,\* settings.WEBHOOK_SECRET
    response       \* the answer to the last storefront / webhook request

dbVars == <<orders, settlements>>
gwVars == <<transfers, createCalls, reverseCalls>>
procVars == <<pc, op, arg, ord, stl, txOrd, txStl, queue, results, ret>>
shopVars == <<cart, stock, outbox, webhook_secret, response>>
vars == <<orders, settlements, transfers, createCalls, reverseCalls,
          calls, adminEdits, pc, op, arg, ord, stl, txOrd, txStl, queue, results, ret,
          cart, stock, outbox, webhook_secret, response>>

NoResults == [total |-> 0, successful |-> 0, failed |-> 0, skipped |-> 0]

\* No settlement yet, no request in progress.
InitRest ==
    /\ settlements = [s \in {} |-> Null]
    /\ transfers = << >>
    /\ createCalls = [o \in Orders |-> 0]
    /\ reverseCalls = 0
    /\ calls = 0
    /\ adminEdits = 0
    /\ pc = [p \in Procs |-> "idle"]
    /\ op = [p \in Procs |-> "none"]
    /\ arg = [p \in Procs |-> 0]
    /\ ord = [p \in Procs |-> Null]
    /\ stl = [p \in Procs |-> Null]
    /\ txOrd = [p \in Procs |-> Null]
    /\ txStl = [p \in Procs |-> Null]
    /\ queue = [p \in Procs |-> << >>]
    /\ results = [p \in Procs |-> NoResults]
    /\ ret = [p \in Procs |-> "none"]

\* ------------------------------------------------------------ storefront
Products == {1, 2}

\* products/models.py Product.stock of the catalogue a run starts from.
InitialStock == (1 :> 3) @@ (2 :> 1)

\* OrderDetail rows (product, quantity) of an order, in primary-key order.
OrderDetails(o) ==
    IF o = 1 THEN << [product |-> 2, quantity |-> 1], [product |-> 1, quantity |-> 2] >>
    ELSE << [product |-> 1, quantity |-> 2] >>

NoMail == [order_cancelled |-> 0, refund_request |-> 0, order_status_update |-> 0,
           marked_processing |-> 0]

\* The cart that was checked out is still active (it is cleared on payment),
\* nothing was shipped or mailed, no request was answered.
InitStore ==
    /\ cart = [i \in Products |-> TRUE]
    /\ stock = InitialStock
    /\ outbox = NoMail
    /\ response = "none"

Init ==
    /\ \E i \in 1 .. 8, j \in 1 .. 3 :
          orders = (1 :> OrderProfiles(1)[i]) @@ (2 :> OrderProfiles(2)[j])
    /\ InitRest
    /\ InitStore
    /\ webhook_secret = "whsec"

\* ------------------------------------------------------------ store reads
SettlementIds == DOMAIN settlements

\* PaymentSettlement.objects.filter(order=order): the committed rows of an order.
\* (A request never reads the table after writing a settlement row itself, and
\* rows inserted by another open transaction are invisible.)
SettlementsOf(order_id) == { s \in SettlementIds : settlements[s].order = order_id }

\* Meta.ordering = ['-initiated_at'] and .first(): the most recently created row.
Newest(S) == CHOOSE s \in S : \A t \in S : t <= s

\* settlement_id is an AutoField and initiated_at is set on insert: a new row
\* is newer than every row inserted before it, committed or not.
NextSid ==
    LET used == SettlementIds \cup
                { txStl[q].settlement_id : q \in { r \in Procs : txStl[r] # Null } }
    IN  IF used = {} THEN 1 ELSE 1 + CHOOSE s \in used : \A t \in used : t <= s

\* Row locks: a row written inside an open transaction is locked until it ends.
OrderLockedByOther(p, order_id) ==
    \E q \in Procs \ {p} : txOrd[q] # Null /\ txOrd[q].order_id = order_id

SettlementLockedByOther(p, sid) ==
    \E q \in Procs \ {p} :
        txStl[q] # Null /\ txStl[q].settlement_id = sid /\ ~txStl[q].created

\* ------------------------------------------------- process_settlement
\* The preconditions without the KYC check of lines 49-50.
ValidateWithoutKyc(order) ==
    IF order.status # "Delivered" THEN "not_delivered"
    ELSE IF order.settlement_status = "completed" THEN "already_settled"
    ELSE IF order.vendor = NoVendor THEN "no_vendor"
    ELSE IF VendorAccount(order.vendor).razorpay_account_id = "" THEN "not_linked"
    ELSE IF VendorAccount(order.vendor).account_status # "active" THEN "not_active"
    ELSE "ok"

\* settlement_service.py:41-57: the first violated precondition, or "ok".
Validate(order) ==
    IF order.status # "Delivered" THEN "not_delivered"
    ELSE IF order.settlement_status = "completed" THEN "already_settled"
    ELSE IF order.vendor = NoVendor THEN "no_vendor"
    ELSE IF ~VendorAccount(order.vendor).kyc_verified THEN "kyc_not_verified"
    ELSE IF VendorAccount(order.vendor).razorpay_account_id = "" THEN "not_linked"
    ELSE IF VendorAccount(order.vendor).account_status # "active" THEN "not_active"
    ELSE "ok"

\* settlement_service.py:65: an existing row in one of these states is a conflict.
ConflictStatuses == {"processing", "completed"}

\* Exceptions that are ValueError (views answer 400, the sweep counts "skipped").
ValueErrors ==
    {"not_delivered", "already_settled", "no_vendor", "kyc_not_verified",
     "not_linked", "not_active", "conflict", "no_payment_id",
     "not_failed", "max_retries", "not_completed", "no_transfer_id"}

\* The call of request p ends with `outcome`: the transaction is over (its
\* buffered writes are applied or dropped by the calling action), the instances
\* are released; inside the sweep the outcome is tallied (lines 214-230) and the
\* loop goes on.
Exit(p, outcome) ==
    /\ ord' = [ord EXCEPT ![p] = Null]
    /\ stl' = [stl EXCEPT ![p] = Null]
    /\ txOrd' = [txOrd EXCEPT ![p] = Null]
    /\ txStl' = [txStl EXCEPT ![p] = Null]
    /\ UNCHANGED <<op, arg, queue>>
    /\ IF op[p] = "auto"
       THEN /\ pc' = [pc EXCEPT ![p] = "auto_next"]
            /\ ret' = ret
            /\ results' = [results EXCEPT ![p] =
                 IF outcome = "ok"
                 THEN [@ EXCEPT !.successful = @ + 1]
                 ELSE IF outcome \in ValueErrors
                 THEN [@ EXCEPT !.skipped = @ + 1]
                 ELSE [@ EXCEPT !.failed = @ + 1]]
       ELSE /\ pc' = [pc EXCEPT ![p] = "idle"]
            /\ ret' = [ret EXCEPT ![p] = outcome]
            /\ results' = results

\* Request slots are interchangeable: a new request takes the lowest idle one.
Free(p) == pc[p] = "idle" /\ \A q \in Procs : q < p => pc[q] # "idle"

\* views.py:664-680 initiate_settlement: load the order and call
\* process_settlement.
StartInitiate(p, o) ==
    /\ Free(p)
    /\ calls' = calls + 1
    /\ op' = [op EXCEPT ![p] = "initiate"]
    /\ arg' = [arg EXCEPT ![p] = o]
    /\ pc' = [pc EXCEPT ![p] = "validate"]
    /\ ord' = [ord EXCEPT ![p] = orders[o]]
    /\ ret' = [ret EXCEPT ![p] = "running"]
    /\ UNCHANGED <<dbVars, gwVars, adminEdits, stl, txOrd, txStl, queue, results>>
    /\ UNCHANGED shopVars

\* settlement_service.py:26-57: process_settlement is entered (the transaction
\* begins) and the preconditions reject the order or let it in.
Enter(p) ==
    /\ pc[p] = "validate"
    /\ IF Validate(ord[p]) = "ok"
       THEN /\ pc' = [pc EXCEPT ![p] = "lookup"]
            /\ UNCHANGED <<op, arg, ord, stl, txOrd, txStl, queue, results, ret>>
       ELSE Exit(p, Validate(ord[p]))
    /\ UNCHANGED <<dbVars, gwVars, calls, adminEdits>>
    /\ UNCHANGED shopVars

\* settlement_service.py:59-66: compute the commission when either amount is
\* zero (calculate_commission saves the order), then look for an existing
\* settlement and refuse when it is processing or completed.
Lookup(p) ==
    /\ pc[p] = "lookup"
    /\ LET o == ord[p].order_id
           recompute == ord[p].commission_amount = 0
                        \/ ord[p].vendor_settlement_amount = 0
           order == IF recompute THEN calculate_commission(ord[p]) ELSE ord[p]
           existing == SettlementsOf(o)
       IN  /\ recompute => ~OrderLockedByOther(p, o)
           /\ IF existing # {} /\ settlements[Newest(existing)].status \in ConflictStatuses
              THEN Exit(p, "conflict")
              ELSE /\ pc' = [pc EXCEPT ![p] = "upsert"]
                   /\ ord' = [ord EXCEPT ![p] = order]
                   /\ txOrd' = [txOrd EXCEPT ![p] =
                        IF recompute THEN [order_id |-> o] ELSE txOrd[p]]
                   /\ UNCHANGED <<op, arg, stl, txStl, queue, results, ret>>
    /\ UNCHANGED <<dbVars, gwVars, calls, adminEdits>>
    /\ UNCHANGED shopVars

\* The row process_settlement writes (lines 69-87): the defaults of
\* get_or_create for a new row, the overwritten columns for a found one.
NewSettlement(sid, order) ==
    [settlement_id |-> sid, order |-> order.order_id, vendor |-> order.vendor,
     order_amount |-> order.total_price,
     commission_amount |-> order.commission_amount,
     settlement_amount |-> order.vendor_settlement_amount,
     razorpay_transfer_id |-> 0, reversal |-> FALSE,
     status |-> "processing", failure_reason |-> "", retry_count |-> 0]

ReusedSettlement(row, order) ==
    [row EXCEPT !.vendor = order.vendor,
                !.order_amount = order.total_price,
                !.commission_amount = order.commission_amount,
                !.settlement_amount = order.vendor_settlement_amount,
                !.status = "processing"]

\* settlement_service.py:69-87 get_or_create(order=order, ...): no row, insert
\* one; one row, take and overwrite it; several rows, get() raises
\* MultipleObjectsReturned (outside the try block).
Upsert(p) ==
    /\ pc[p] = "upsert"
    /\ LET o == ord[p].order_id
           existing == SettlementsOf(o)
       IN  IF Cardinality(existing) > 1
           THEN Exit(p, "multiple_objects")
           ELSE IF existing = {}
           THEN /\ stl' = [stl EXCEPT ![p] = NewSettlement(NextSid, ord[p])]
                /\ txStl' = [txStl EXCEPT ![p] =
                     [settlement_id |-> NextSid, created |-> TRUE]]
                /\ pc' = [pc EXCEPT ![p] = "initiate"]
                /\ UNCHANGED <<op, arg, ord, txOrd, queue, results, ret>>
           ELSE LET sid == Newest(existing) IN
                /\ ~SettlementLockedByOther(p, sid)
                /\ stl' = [stl EXCEPT ![p] = ReusedSettlement(settlements[sid], ord[p])]
                /\ txStl' = [txStl EXCEPT ![p] =
                     [settlement_id |-> sid, created |-> FALSE]]
                /\ pc' = [pc EXCEPT ![p] = "initiate"]
                /\ UNCHANGED <<op, arg, ord, txOrd, queue, results, ret>>
    /\ UNCHANGED <<orders, settlements, gwVars, calls, adminEdits>>
    /\ UNCHANGED shopVars

\* settlement_service.py:91-92: order.settlement_status = 'initiated'; save().
Initiate(p) ==
    /\ pc[p] = "initiate"
    /\ ~OrderLockedByOther(p, ord[p].order_id)
    /\ ord' = [ord EXCEPT ![p].settlement_status = "initiated"]
    /\ txOrd' = [txOrd EXCEPT ![p] = [order_id |-> ord[p].order_id]]
    /\ pc' = [pc EXCEPT ![p] = "transfer"]
    /\ UNCHANGED <<dbVars, gwVars, calls, adminEdits, op, arg, stl, txStl, queue, results, ret>>
    /\ UNCHANGED shopVars

\* transaction.atomic around process_settlement (line 25): what the store holds
\* once the call is over.  An exception leaving the function rolls back.
Atomic(before, after, raised) == IF raised THEN before ELSE after

\* settlement_service.py:102-112, the success path.
CompletedSettlement(row, transfer_id) ==
    [row EXCEPT !.razorpay_transfer_id = transfer_id, !.status = "completed",
                !.reversal = FALSE]

CompletedOrder(order, transfer_id) ==
    [order EXCEPT !.settlement_status = "completed",
                  !.razorpay_transfer_id = transfer_id,
                  !.settled_at = TRUE]

\* settlement_service.py:127-132, the failure path.
FailedSettlement(row, message) ==
    [row EXCEPT !.status = "failed", !.failure_reason = message]

FailedOrder(order) == [order EXCEPT !.settlement_status = "failed"]

\* The store after request p's process_settlement wrote `row` and `order` last
\* and left with (raised) or without an exception.
Store(p, row, order, raised) ==
    /\ orders' = Atomic(orders,
                        [orders EXCEPT ![order.order_id] = SavedOrder(order)],
                        raised)
    /\ settlements' = Atomic(settlements,
                             (row.settlement_id :> SavedSettlement(row)) @@ settlements,
                             raised)

\* razorpay_service.py:142-146: create_transfer refuses, before any API call,
\* an order without payment id (ValueError; the vendor's linked account was
\* already checked at line 53); process_settlement's except block (125-143)
\* records the failure and re-raises.
TransferRefused(p) ==
    /\ pc[p] = "transfer"
    /\ ord[p].razorpay_payment_id = ""
    /\ createCalls' = [createCalls EXCEPT ![ord[p].order_id] = @ + 1]
    /\ Store(p, FailedSettlement(stl[p], "no_payment_id"), FailedOrder(ord[p]), TRUE)
    /\ Exit(p, "no_payment_id")
    /\ UNCHANGED <<transfers, reverseCalls, calls, adminEdits>>
    /\ UNCHANGED shopVars

TransferAccepted(p) ==
    /\ pc[p] = "transfer"
    /\ ord[p].razorpay_payment_id # ""

\* settlement_service.py:95-99 with razorpay_service.py:162-172: the gateway
\* rejects the transfer (or the network fails); lines 125-143.
TransferFails(p) ==
    /\ TransferAccepted(p)
    /\ createCalls' = [createCalls EXCEPT ![ord[p].order_id] = @ + 1]
    /\ Store(p, FailedSettlement(stl[p], "gateway_error"), FailedOrder(ord[p]), TRUE)
    /\ Exit(p, "gateway_error")
    /\ UNCHANGED <<transfers, reverseCalls, calls, adminEdits>>
    /\ UNCHANGED shopVars

\* settlement_service.py:95-123: the gateway creates the transfer, the
\* settlement and the order are completed, the transaction commits.
TransferSucceeds(p) ==
    /\ TransferAccepted(p)
    /\ createCalls' = [createCalls EXCEPT ![ord[p].order_id] = @ + 1]
    /\ transfers' = Append(transfers, [order |-> ord[p].order_id, reversed |-> FALSE])
    /\ Store(p, CompletedSettlement(stl[p], Len(transfers) + 1),
                CompletedOrder(ord[p], Len(transfers) + 1), FALSE)
    /\ Exit(p, "ok")
    /\ UNCHANGED <<reverseCalls, calls, adminEdits>>
    /\ UNCHANGED shopVars

\* settlement_service.py:101-143: the gateway creates the transfer, then a later
\* statement of the try block raises (a save, the notification insert); the
\* except block records a failure and re-raises.
TransferSucceedsThenRaises(p) ==
    /\ TransferAccepted(p)
    /\ createCalls' = [createCalls EXCEPT ![ord[p].order_id] = @ + 1]
    /\ transfers' = Append(transfers, [order |-> ord[p].order_id, reversed |-> FALSE])
    /\ Store(p, FailedSettlement(stl[p], "post_gateway_error"), FailedOrder(ord[p]), TRUE)
    /\ Exit(p, "post_gateway_error")
    /\ UNCHANGED <<reverseCalls, calls, adminEdits>>
    /\ UNCHANGED shopVars

\* ---------------------------------------------- retry_failed_settlement
MaxRetries == 3

\* The retry checks with the limit off by one (> for >=).
RetryRefusalOffByOne(settlement) ==
    IF settlement.status # "failed" THEN "not_failed"
    ELSE IF settlement.retry_count > MaxRetries THEN "max_retries"
    ELSE "ok"

\* settlement_service.py:158-162: why a settlement is not retried, or "ok".
RetryRefusal(settlement) ==
    IF settlement.status # "failed" THEN "not_failed"
    ELSE IF settlement.retry_count >= MaxRetries THEN "max_retries"
    ELSE "ok"

\* views.py:756-774 retry_settlement loads the settlement with its order;
\* settlement_service.py:158-162 refuse it or let it in.
StartRetry(p, sid) ==
    /\ Free(p)
    /\ sid \in SettlementIds
    /\ calls' = calls + 1
    /\ op' = [op EXCEPT ![p] = "retry"]
    /\ arg' = [arg EXCEPT ![p] = sid]
    /\ IF RetryRefusal(settlements[sid]) # "ok"
       THEN /\ ret' = [ret EXCEPT ![p] = RetryRefusal(settlements[sid])]
            /\ UNCHANGED <<pc, ord, stl>>
       ELSE /\ ret' = [ret EXCEPT ![p] = "running"]
            /\ pc' = [pc EXCEPT ![p] = "retry_save"]
            /\ stl' = [stl EXCEPT ![p] = settlements[sid]]
            /\ ord' = [ord EXCEPT ![p] = orders[settlements[sid].order]]
    /\ UNCHANGED <<dbVars, gwVars, adminEdits, txOrd, txStl, queue, results>>
    /\ UNCHANGED shopVars

\* settlement_service.py:165-168.
RetriedSettlement(row) ==
    [row EXCEPT !.retry_count = @ + 1, !.status = "processing", !.failure_reason = ""]

\* settlement_service.py:165-173: count the retry, save the settlement (no
\* transaction is open: the save is committed), then call process_settlement
\* with settlement.order.
RetrySave(p) ==
    /\ pc[p] = "retry_save"
    /\ ~SettlementLockedByOther(p, stl[p].settlement_id)
    /\ settlements' = [settlements EXCEPT ![stl[p].settlement_id] =
                          SavedSettlement(RetriedSettlement(stl[p]))]
    /\ pc' = [pc EXCEPT ![p] = "validate"]
    /\ stl' = [stl EXCEPT ![p] = Null]
    /\ UNCHANGED <<orders, gwVars, calls, adminEdits,
                   op, arg, ord, txOrd, txStl, queue, results, ret>>
    /\ UNCHANGED shopVars

\* --------------------------------------------------- reverse_settlement
\* The reversal checks letting a reversed settlement in as well.
ReverseRefusalLax(settlement) ==
    IF settlement.status \notin {"completed", "reversed"} THEN "not_completed"
    ELSE IF settlement.razorpay_transfer_id = 0 THEN "no_transfer_id"
    ELSE "ok"

\* settlement_service.py:255-259: why a settlement is not reversed, or "ok".
ReverseRefusal(settlement) ==
    IF settlement.status # "completed" THEN "not_completed"
    ELSE IF settlement.razorpay_transfer_id = 0 THEN "no_transfer_id"
    ELSE "ok"

\* views.py:873-898 reverse_settlement loads the settlement with its order;
\* settlement_service.py:255-259 refuse it or let it in.
StartReverse(p, sid) ==
    /\ Free(p)
    /\ sid \in SettlementIds
    /\ calls' = calls + 1
    /\ op' = [op EXCEPT ![p] = "reverse"]
    /\ arg' = [arg EXCEPT ![p] = sid]
    /\ IF ReverseRefusal(settlements[sid]) # "ok"
       THEN /\ ret' = [ret EXCEPT ![p] = ReverseRefusal(settlements[sid])]
            /\ UNCHANGED <<pc, ord, stl>>
       ELSE /\ ret' = [ret EXCEPT ![p] = "running"]
            /\ pc' = [pc EXCEPT ![p] = "reverse"]
            /\ stl' = [stl EXCEPT ![p] = settlements[sid]]
            /\ ord' = [ord EXCEPT ![p] = orders[settlements[sid].order]]
    /\ UNCHANGED <<dbVars, gwVars, adminEdits, txOrd, txStl, queue, results>>
    /\ UNCHANGED shopVars

\* settlement_service.py:263-266 and 295-297: the gateway refuses the reversal
\* (always, when the transfer is already reversed); the exception propagates.
ReverseFails(p) ==
    /\ pc[p] = "reverse"
    /\ reverseCalls' = reverseCalls + 1
    /\ Exit(p, "gateway_error")
    /\ UNCHANGED <<dbVars, transfers, createCalls, calls, adminEdits>>
    /\ UNCHANGED shopVars

\* settlement_service.py:269-275.
ReversedSettlement(row) ==
    [row EXCEPT !.status = "reversed", !.failure_reason = "Reversed", !.reversal = TRUE]

\* The order reset leaving settlement_status as it was.
ResetOrderKeepsStatus(order) ==
    [order EXCEPT !.razorpay_transfer_id = 0, !.settled_at = FALSE]

\* settlement_service.py:279-281.
ResetOrder(order) ==
    [order EXCEPT !.settlement_status = "pending",
                  !.razorpay_transfer_id = 0,
                  !.settled_at = FALSE]

\* settlement_service.py:263-275: the gateway reverses the transfer and the
\* settlement is saved as reversed (no transaction is open: committed at once).
ReverseSucceeds(p) ==
    /\ pc[p] = "reverse"
    /\ ~transfers[stl[p].razorpay_transfer_id].reversed
    /\ ~SettlementLockedByOther(p, stl[p].settlement_id)
    /\ reverseCalls' = reverseCalls + 1
    /\ transfers' = [transfers EXCEPT ![stl[p].razorpay_transfer_id].reversed = TRUE]
    /\ settlements' = [settlements EXCEPT ![stl[p].settlement_id] =
                          SavedSettlement(ReversedSettlement(stl[p]))]
    /\ stl' = [stl EXCEPT ![p] = ReversedSettlement(stl[p])]
    /\ pc' = [pc EXCEPT ![p] = "reverse_order"]
    /\ UNCHANGED <<orders, createCalls, calls, adminEdits,
                   op, arg, ord, txOrd, txStl, queue, results, ret>>
    /\ UNCHANGED shopVars

\* settlement_service.py:278-293: settlement.order is reset and saved.
ReverseOrder(p) ==
    /\ pc[p] = "reverse_order"
    /\ ~OrderLockedByOther(p, ord[p].order_id)
    /\ orders' = [orders EXCEPT ![ord[p].order_id] = SavedOrder(ResetOrder(ord[p]))]
    /\ Exit(p, "ok")
    /\ UNCHANGED <<settlements, gwVars, calls, adminEdits>>
    /\ UNCHANGED shopVars

\* ------------------------------------------ auto_settle_delivered_orders
\* settlement_service.py:187-194, the filter of the sweep.
AutoSettleFilter(order) ==
    /\ order.status = "Delivered"
    /\ order.settlement_status = "pending"
    /\ order.vendor # NoVendor
    /\ VendorAccount(order.vendor).kyc_verified
    /\ VendorAccount(order.vendor).account_status = "active"
    /\ order.is_active

RECURSIVE OrderList(_)
\* The rows of a queryset as a list, by primary key.
OrderList(S) ==
    IF S = {} THEN << >>
    ELSE LET o == CHOOSE x \in S : \A y \in S : x <= y
         IN  <<orders[o]>> \o OrderList(S \ {o})

\* views.py:798-806 and settlement_service.py:187-204: the sweep selects its
\* orders and counts them.
StartAuto(p) ==
    /\ Free(p)
    /\ calls' = calls + 1
    /\ op' = [op EXCEPT ![p] = "auto"]
    /\ arg' = [arg EXCEPT ![p] = 0]
    /\ pc' = [pc EXCEPT ![p] = "auto_next"]
    /\ LET pending_orders == { o \in Orders : AutoSettleFilter(orders[o]) }
       IN  /\ queue' = [queue EXCEPT ![p] = OrderList(pending_orders)]
           /\ results' = [results EXCEPT ![p] =
                [NoResults EXCEPT !.total = Cardinality(pending_orders)]]
    /\ ret' = [ret EXCEPT ![p] = "running"]
    /\ UNCHANGED <<dbVars, gwVars, adminEdits, ord, stl, txOrd, txStl>>
    /\ UNCHANGED shopVars

\* settlement_service.py:206-214: the sweep calls process_settlement with its
\* next order.
AutoNext(p) ==
    /\ pc[p] = "auto_next"
    /\ queue[p] # << >>
    /\ queue' = [queue EXCEPT ![p] = Tail(@)]
    /\ pc' = [pc EXCEPT ![p] = "validate"]
    /\ ord' = [ord EXCEPT ![p] = Head(queue[p])]
    /\ UNCHANGED <<dbVars, gwVars, calls, adminEdits, op, arg, stl, txOrd, txStl,
                   results, ret>>
    /\ UNCHANGED shopVars

\* settlement_service.py:232-242: the sweep is over and returns its summary.
AutoDone(p) ==
    /\ pc[p] = "auto_next"
    /\ queue[p] = << >>
    /\ pc' = [pc EXCEPT ![p] = "idle"]
    /\ ret' = [ret EXCEPT ![p] = "ok"]
    /\ UNCHANGED <<dbVars, gwVars, calls, adminEdits, op, arg, ord, stl, txOrd, txStl,
                   queue, results>>
    /\ UNCHANGED shopVars

\* ------------------------------------------------------------ admin site
\* orders/admin.py:57-81 PaymentSettlementAdmin: status, failure_reason and
\* retry_count are editable.  The edit modelled is the manual intervention on a
\* settlement that is not failed: an operator marks it failed.
AdminMarkFailed(sid) ==
    /\ sid \in SettlementIds
    /\ settlements[sid].status # "failed"
    /\ \A p \in Procs : ~SettlementLockedByOther(p, sid)
    /\ adminEdits' = adminEdits + 1
    /\ settlements' = [settlements EXCEPT ![sid] =
                          FailedSettlement(@, "marked failed by operator")]
    /\ UNCHANGED <<orders, gwVars, calls, procVars>>
    /\ UNCHANGED shopVars

\* ------------------------------------------------------- specifications
SettlementIdRange == 1 .. MaxSeqCalls

\* A request arrives and its view calls the service.
Start(p) ==
    \/ \E o \in Orders : StartInitiate(p, o)
    \/ \E sid \in SettlementIdRange : StartRetry(p, sid)
    \/ \E sid \in SettlementIdRange : StartReverse(p, sid)
    \/ StartAuto(p)

\* A request in progress takes its next step.
Step(p) ==
    \/ Enter(p)
    \/ Lookup(p)
    \/ Upsert(p)
    \/ Initiate(p)
    \/ TransferRefused(p)
    \/ TransferFails(p)
    \/ TransferSucceeds(p)
    \/ TransferSucceedsThenRaises(p)
    \/ RetrySave(p)
    \/ ReverseFails(p)
    \/ ReverseSucceeds(p)
    \/ ReverseOrder(p)
    \/ AutoNext(p)
    \/ AutoDone(p)

\* Requests are served concurrently (one handler per request).
Next ==
    \/ calls < MaxCalls /\ \E p \in Procs : Start(p)
    \/ \E p \in Procs : Step(p)
    \/ adminEdits < MaxAdminEdits /\ \E sid \in SettlementIdRange : AdminMarkFailed(sid)

Spec == Init /\ [][Next]_vars

\* Requests are served one after the other: longer histories of one order.
InitSeq == Init /\ orders[2] = OrderProfiles(2)[3]

NextSeq ==
    \/ calls < MaxSeqCalls /\ Start(1)
    \/ Step(1)
    \/ adminEdits < MaxSeqAdminEdits /\ pc[1] = "idle"
       /\ \E sid \in SettlementIdRange : AdminMarkFailed(sid)

SpecSeq == InitSeq /\ [][NextSeq]_vars

\* Two initiate-settlement requests that overlap: the second arrives while the
\* first is still being served.  The gateway accepts or rejects each transfer;
\* nothing else goes wrong.
MaxRaceCalls == 2

StepRace(p) ==
    \/ Enter(p)
    \/ Lookup(p)
    \/ Upsert(p)
    \/ Initiate(p)
    \/ TransferRefused(p)
    \/ TransferFails(p)
    \/ TransferSucceeds(p)

NextRace ==
    \/ /\ calls < MaxRaceCalls
       /\ calls = 0 \/ \E q \in Procs : pc[q] # "idle"
       /\ \E p \in Procs, o \in Orders : StartInitiate(p, o)
    \/ \E p \in Procs : StepRace(p)

SpecRace == Init /\ [][NextRace]_vars

\* Order creation: the order row is inserted with both amounts 0, then
\* calculate_commission() computes and saves them (views.py:249-258).
CommissionTotals == (0 .. MaxTotalPaise) \cup {99999}

InitCommission ==
    /\ \E paise \in CommissionTotals, v \in {1, 2} :
          orders = (1 :> CreatedOrder(1, v, "Pending", paise, ""))
                   @@ (2 :> CreatedOrder(2, 1, "Pending", 99999, ""))
    /\ InitRest
    /\ InitStore
    /\ webhook_secret = "whsec"

ComputeCommission(o) ==
    /\ orders[o].commission_amount = 0
    /\ orders[o].vendor_settlement_amount = 0
    /\ orders' = [orders EXCEPT ![o] = SavedOrder(calculate_commission(@))]
    /\ UNCHANGED <<settlements, gwVars, calls, adminEdits, procVars>>
    /\ UNCHANGED shopVars

NextCommission == \E o \in Orders : ComputeCommission(o)

SpecCommission == InitCommission /\ [][NextCommission]_vars

\* Two overlapping process_settlement calls, then operator edits and retries
\* served one at a time.
MaxRaceRetryCalls == 4
MaxRaceRetryEdits == 2

InitRaceRetry == Init /\ orders[2] = OrderProfiles(2)[3]

NextRaceRetry ==
    \/ /\ calls < MaxRaceCalls
       /\ calls = 0 \/ \E q \in Procs : pc[q] # "idle"
       /\ \E p \in Procs, o \in Orders : StartInitiate(p, o)
    \/ /\ MaxRaceCalls <= calls /\ calls < MaxRaceRetryCalls
       /\ \E sid \in SettlementIdRange : StartRetry(1, sid)
    \/ \E p \in Procs : StepRace(p) \/ RetrySave(p)
    \/ /\ adminEdits < MaxRaceRetryEdits
       /\ \A q \in Procs : pc[q] = "idle"
       /\ \E sid \in SettlementIdRange : AdminMarkFailed(sid)

SpecRaceRetry == InitRaceRetry /\ [][NextRaceRetry]_vars

\* ------------------------------------------- storefront and payment webhooks
\* The views below write the order on their own (no transaction is opened,
\* every save is committed at once); a request is one step.  The settlement
\* ledger is not touched by them.
MaxShopCalls == 3

SettlementUntouched == UNCHANGED <<settlements, gwVars, adminEdits, procVars>>

\* CartItem.objects.filter(cart__user=order.user, is_active=True)
\*     .update(is_active=False)
ClearedCart == [i \in Products |-> FALSE]

\* views.py:84-121 CartViewSet.create: one unit of a product is put in the cart.
AddToCart(prod) ==
    /\ calls < MaxShopCalls
    /\ calls' = calls + 1
    /\ IF stock[prod] < 1 \/ cart[prod]
       THEN cart' = cart /\ response' = "400"
       ELSE cart' = [cart EXCEPT ![prod] = TRUE] /\ response' = "201"
    /\ UNCHANGED <<orders, stock, outbox, webhook_secret>>
    /\ SettlementUntouched

\* views.py:436-439: stock = F("stock") - quantity, item by item; the column is
\* a PositiveIntegerField, a negative result is refused by the database and the
\* exception ends the request (the items already saved stay saved).
RECURSIVE DeductStock(_, _)
DeductStock(st, items) ==
    IF items = << >> THEN [stock |-> st, raised |-> FALSE]
    ELSE IF st[Head(items).product] < Head(items).quantity
    THEN [stock |-> st, raised |-> TRUE]
    ELSE DeductStock([st EXCEPT ![Head(items).product] = @ - Head(items).quantity],
                     Tail(items))

\* A variant of CancelRefusal that lets a Shipped order through.
CancelRefusalDeliveredOnly(order) ==
    IF ~order.is_active THEN "400_inactive"
    ELSE IF order.status = "Delivered" THEN "400_cannot_cancel"
    ELSE "ok"

\* views.py:401-406: why the update view refuses a cancellation, or "ok".
CancelRefusal(order) ==
    IF ~order.is_active THEN "400_inactive"
    ELSE IF order.status \in {"Shipped", "Delivered"} THEN "400_cannot_cancel"
    ELSE "ok"

\* A variant of RefundRequested that asks for a refund on every cancellation.
RefundRequestedAlways(previous_status) == previous_status \in {"Pending", "Processing"}

\* views.py:420-427: the refund-request mail is sent for this previous status.
RefundRequested(previous_status) ==
    previous_status = "Processing"

\* views.py:395-429 OrderViewSet.update with status "Cancelled".
CancelOrder(o) ==
    /\ calls < MaxShopCalls
    /\ calls' = calls + 1
    /\ IF CancelRefusal(orders[o]) # "ok"
       THEN /\ response' = CancelRefusal(orders[o])
            /\ UNCHANGED <<orders, outbox>>
       ELSE /\ orders' = [orders EXCEPT ![o].status = "Cancelled", ![o].is_active = FALSE]
            /\ outbox' = [outbox EXCEPT
                            !.order_cancelled = @ + 1,
                            !.refund_request =
                                IF RefundRequested(orders[o].status) THEN @ + 1 ELSE @]
            /\ response' = "200_cancelled"
    /\ UNCHANGED <<cart, stock, webhook_secret>>
    /\ SettlementUntouched

\* views.py:395-403 and 431-457 OrderViewSet.update with another status.
UpdateOrder(o, new_status) ==
    /\ calls < MaxShopCalls
    /\ calls' = calls + 1
    /\ IF ~orders[o].is_active
       THEN /\ response' = "400_inactive"
            /\ UNCHANGED <<orders, stock, outbox>>
       ELSE IF new_status = "Shipped"
       THEN /\ stock' = DeductStock(stock, OrderDetails(o)).stock
            /\ IF DeductStock(stock, OrderDetails(o)).raised
               THEN /\ response' = "500"
                    /\ UNCHANGED <<orders, outbox>>
               ELSE /\ orders' = [orders EXCEPT ![o].status = "Shipped"]
                    /\ outbox' = [outbox EXCEPT !.order_status_update = @ + 1]
                    /\ response' = "200"
       ELSE IF new_status = "Delivered"
       THEN /\ orders' = [orders EXCEPT ![o].status = "Delivered"]
            /\ outbox' = [outbox EXCEPT !.order_status_update = @ + 1]
            /\ response' = "200"
            /\ stock' = stock
       ELSE /\ response' = "400_invalid_status"
            /\ UNCHANGED <<orders, stock, outbox>>
    /\ UNCHANGED <<cart, webhook_secret>>
    /\ SettlementUntouched

\* views.py:515-530: the signature check of the webhook.  A signature is
\* represented by the key it was computed with (over the body received); the
\* check is skipped when no secret is configured.
SignatureRefused(key) == webhook_secret # "" /\ key # webhook_secret

\* views.py:557-568: the order a payment.captured event refers to (0: none).
\* The gateway reference of order o is o.
CapturedOrder(ref, payment_id) ==
    IF ref \in Orders /\ orders[ref].is_active THEN ref
    ELSE LET byPayment == { o \in Orders : /\ orders[o].razorpay_payment_id = payment_id
                                           /\ orders[o].is_active }
         IN  IF byPayment = {} THEN 0
             ELSE CHOOSE o \in byPayment : \A q \in byPayment : o <= q

\* A variant of PaidOrder that leaves alone an order already carrying the
\* payment id.
PaidOrderUnlessKnown(order, payment_id) ==
    IF order.razorpay_payment_id = payment_id THEN order
    ELSE [order EXCEPT !.status = "Processing", !.razorpay_payment_id = payment_id]

\* A variant of PaidOrder that moves the status on with every delivery.
PaidOrderAdvancing(order, payment_id) ==
    [order EXCEPT !.status = IF @ = "Processing" THEN "Shipped" ELSE "Processing",
                  !.razorpay_payment_id = payment_id]

\* views.py:569-577: what payment.captured does to the order it found.
PaidOrder(order, payment_id) ==
    [order EXCEPT !.status = "Processing", !.razorpay_payment_id = payment_id]

\* views.py:552-582: the rows as an accepted payment.captured delivery leaves
\* them.
AfterCaptured(ref, payment_id) ==
    IF CapturedOrder(ref, payment_id) = 0
    THEN [orders |-> orders, cart |-> cart]
    ELSE [orders |-> [orders EXCEPT ![CapturedOrder(ref, payment_id)] =
                         PaidOrder(@, payment_id)],
          cart |-> ClearedCart]

\* views.py:505-620 razorpay_webhook.  outbox.marked_processing counts the
\* "marked as Processing" lines it logs.  amount is the payment entity's
\* "amount" member as JSON gives it: [number |-> n], or Null for null;
\* amount / 100 (line 544) raises for Null and the handler answers 500.
RazorpayWebhook(event, ref, payment_id, amount, key) ==
    /\ calls < MaxShopCalls
    /\ calls' = calls + 1
    /\ IF SignatureRefused(key)
       THEN /\ response' = "400_invalid_signature"
            /\ UNCHANGED <<orders, cart, outbox>>
       ELSE IF amount = Null
       THEN /\ response' = "500"
            /\ UNCHANGED <<orders, cart, outbox>>
       ELSE /\ response' = "200"
            /\ IF event = "payment.captured"
               THEN /\ orders' = AfterCaptured(ref, payment_id).orders
                    /\ cart' = AfterCaptured(ref, payment_id).cart
                    /\ outbox' = [outbox EXCEPT !.marked_processing =
                                     IF CapturedOrder(ref, payment_id) # 0
                                     THEN @ + 1 ELSE @]
               ELSE IF event = "payment.failed" /\ ref \in Orders /\ orders[ref].is_active
               THEN /\ orders' = [orders EXCEPT ![ref].status = "Failed"]
                    /\ UNCHANGED <<cart, outbox>>
               ELSE UNCHANGED <<orders, cart, outbox>>
    /\ UNCHANGED <<stock, webhook_secret>>
    /\ SettlementUntouched

\* views.py:460-503 payment_webhook, the GET callback of the payment link.
PaymentCallback(o, link_status, payment_id, valid) ==
    /\ calls < MaxShopCalls
    /\ calls' = calls + 1
    /\ IF ~valid
       THEN /\ response' = "500"
            /\ UNCHANGED <<orders, cart>>
       ELSE IF ~orders[o].is_active
       THEN /\ response' = "400"
            /\ UNCHANGED <<orders, cart>>
       ELSE IF link_status = "paid"
       THEN /\ orders' = [orders EXCEPT ![o] = PaidOrder(@, payment_id)]
            /\ cart' = ClearedCart
            /\ response' = "200"
       ELSE IF link_status = "failed"
       THEN /\ orders' = [orders EXCEPT ![o].status = "Failed"]
            /\ cart' = cart
            /\ response' = "400"
       ELSE /\ response' = "400"
            /\ UNCHANGED <<orders, cart>>
    /\ UNCHANGED <<stock, outbox, webhook_secret>>
    /\ SettlementUntouched

\* views.py:331-381 OrderViewSet.verify: the payment is fetched from the gateway.
Verify(o, payment_status, payment_id) ==
    /\ calls < MaxShopCalls
    /\ calls' = calls + 1
    /\ IF ~orders[o].is_active
       THEN /\ response' = "404"
            /\ UNCHANGED <<orders, cart>>
       ELSE IF payment_status = "captured"
       THEN /\ orders' = [orders EXCEPT ![o] = PaidOrder(@, payment_id)]
            /\ cart' = ClearedCart
            /\ response' = "200"
       ELSE IF payment_status \in {"failed", "refunded"}
       THEN /\ orders' = [orders EXCEPT ![o].status = "Failed",
                                        ![o].razorpay_payment_id = payment_id]
            /\ cart' = cart
            /\ response' = "400"
       ELSE /\ response' = "400"
            /\ UNCHANGED <<orders, cart>>
    /\ UNCHANGED <<stock, outbox, webhook_secret>>
    /\ SettlementUntouched

\* views.py:1103-1192 assign_delivery_partner (manual assignment) and
\* tracking_service.py:379-381 (automatic assignment).
AssignPartner(o) ==
    /\ calls < MaxShopCalls
    /\ calls' = calls + 1
    /\ orders' = [orders EXCEPT ![o].status = "Shipped"]
    /\ response' = "200"
    /\ UNCHANGED <<cart, stock, outbox, webhook_secret>>
    /\ SettlementUntouched

\* consumers.py:313-335 OrderTrackingConsumer.update_order_status.
TrackingStatuses == {"Processing", "Shipped", "Out for Delivery", "Delivered"}

StatusUpdate(o, status) ==
    /\ calls < MaxShopCalls
    /\ calls' = calls + 1
    /\ IF status \in TrackingStatuses
       THEN orders' = [orders EXCEPT ![o].status = status] /\ response' = "sent"
       ELSE orders' = orders /\ response' = "none"
    /\ UNCHANGED <<cart, stock, outbox, webhook_secret>>
    /\ SettlementUntouched

\* Orders as checkout leaves them: Pending, unpaid, one buyer.
InitShop ==
    /\ orders = [o \in Orders |-> NewOrder(o, 1, "Pending", 99999, "")]
    /\ InitRest
    /\ InitStore
    /\ webhook_secret \in {"", "whsec"}

WebhookEvents == {"payment.authorized", "payment.captured", "payment.failed"}
WebhookKeys == {"", "whsec", "forged"}
PaiseAmount == [number |-> 99999]
WebhookAmounts == {PaiseAmount, Null}

NextShop ==
    \/ \E prod \in Products : AddToCart(prod)
    \/ \E o \in Orders : CancelOrder(o)
    \/ \E o \in Orders, st \in {"Shipped", "Delivered", "Pending"} : UpdateOrder(o, st)
    \/ \E ev \in WebhookEvents, ref \in Orders \cup {0}, key \in WebhookKeys :
          \E amount \in WebhookAmounts : RazorpayWebhook(ev, ref, "pay", amount, key)
    \/ \E o \in Orders, ls \in {"paid", "failed"}, valid \in BOOLEAN :
          PaymentCallback(o, ls, "pay", valid)
    \/ \E o \in Orders, ps \in {"captured", "failed", "created"} : Verify(o, ps, "pay")
    \/ \E o \in Orders : AssignPartner(o)
    \/ \E o \in Orders, st \in {"Out for Delivery", "Delivered", "Returned"} :
          StatusUpdate(o, st)

SpecShop == InitShop /\ [][NextShop]_vars

\* ================================================================ claims

\* Gateway transfers created for an order / of them, those not reversed.
TransfersOf(o) == { i \in DOMAIN transfers : transfers[i].order = o }

LiveTransfersOf(o) == { i \in TransfersOf(o) : ~transfers[i].reversed }

\* C1: when two process_settlement calls for the same eligible order overlap,
\* only one of them gets a gateway transfer created: the order never has two
\* transfers.  (Checked under SpecRace; the code lets both calls in.)
C1_OneTransferUnderRace ==
    \A o \in Orders : Cardinality(TransfersOf(o)) <= 1

\* C2: whatever the gateway does and whichever later step of a call raises, an
\* order never has more than one successful transfer that was not reversed.
\* (Checked under SpecSeq; the rollback forgets the transfer.)
C2_OneLiveTransfer ==
    \A o \in Orders : Cardinality(LiveTransfersOf(o)) <= 1

\* The two stored amounts of an order have been computed (they are 0 before).
Computed(order) ==
    order.commission_amount # 0 \/ order.vendor_settlement_amount # 0

\* C3: the stored two-digit commission_amount and vendor_settlement_amount of an
\* order are both zero (not computed yet) or add up to total_price exactly.
C3_AmountsAddUp ==
    \A o \in Orders :
        Computed(orders[o]) =>
            orders[o].commission_amount + orders[o].vendor_settlement_amount
                = orders[o].total_price

\* C4: once computed, the stored commission_amount is total_price times the
\* vendor's commission_percentage over 100, rounded to two digits.
C4_VendorPercentage ==
    \A o \in Orders :
        Computed(orders[o]) =>
            orders[o].commission_amount =
                Quantize((orders[o].total_price
                          * VendorAccount(orders[o].vendor).commission_percentage)
                         \div 100)

\* The six preconditions of a settlement.
Eligible(order) ==
    /\ order.status = "Delivered"
    /\ order.settlement_status # "completed"
    /\ order.vendor # NoVendor
    /\ VendorAccount(order.vendor).kyc_verified
    /\ VendorAccount(order.vendor).razorpay_account_id # ""
    /\ VendorAccount(order.vendor).account_status = "active"

PreconditionErrors ==
    {"not_delivered", "already_settled", "no_vendor", "kyc_not_verified",
     "not_linked", "not_active"}

\* Neither the ledger nor the gateway changes in the step.
NothingMoves == UNCHANGED <<orders, settlements, transfers, createCalls, reverseCalls>>

\* process_settlement, entered by request p with an order that violates a
\* precondition, ends at once with a precondition error and moves nothing.
C5_Rejects ==
    \A p \in Procs :
        (pc[p] = "validate" /\ pc'[p] # "validate" /\ ~Eligible(ord[p])) =>
            /\ NothingMoves
            /\ IF op[p] = "auto"
               THEN pc'[p] = "auto_next"
                    /\ results'[p].skipped = results[p].skipped + 1
               ELSE pc'[p] = "idle" /\ ret'[p] \in PreconditionErrors

\* Every create_transfer call is made by a request whose order instance
\* satisfies the six preconditions.
C5_GatewayOnlyWhenEligible ==
    \A o \in Orders :
        createCalls'[o] # createCalls[o] =>
            \E p \in Procs : /\ pc[p] = "transfer" /\ pc'[p] # "transfer"
                             /\ ord[p].order_id = o
                             /\ Eligible(ord[p])

C6_FailurePersisted ==
    [][\A p \in Procs :
          (pc[p] = "transfer" /\ ret'[p] = "gateway_error") =>
              /\ orders'[ord[p].order_id].settlement_status = "failed"
              /\ \E s \in DOMAIN settlements' :
                    /\ settlements'[s].order = ord[p].order_id
                    /\ settlements'[s].status = "failed"
                    /\ settlements'[s].failure_reason = "gateway_error"]_vars

\* C7: a retry that was let in (failed settlement, retry_count < 3) on an order
\* that satisfies the preconditions gets past the existing-settlement guard of
\* process_settlement: it never ends with the "already exists" conflict.
C7_RetryPassesGuard ==
    \A p \in Procs : op[p] = "retry" => ret[p] # "conflict"

\* Request p starts retry_failed_settlement / reverse_settlement on row sid.
RetryStarts(p, sid) ==
    Free(p) /\ calls' = calls + 1 /\ op'[p] = "retry" /\ arg'[p] = sid

ReverseStarts(p, sid) ==
    Free(p) /\ calls' = calls + 1 /\ op'[p] = "reverse" /\ arg'[p] = sid

RetryCountBounded == \A s \in SettlementIds : settlements[s].retry_count <= 3

\* C8 as stated: a retry on a Settlement with retry_count >= 3 always fails with
\* the maximum-retries error, without a gateway call and changing nothing.
C8_AlwaysMaxRetriesError ==
    [][\A p \in Procs, sid \in SettlementIds :
          (RetryStarts(p, sid) /\ settlements[sid].retry_count >= 3) =>
              /\ pc'[p] = "idle" /\ ret'[p] = "max_retries"
              /\ NothingMoves]_vars

\* C8, amended: a retry on a Settlement with retry_count >= 3 always fails,
\* with the maximum-retries error when the Settlement is failed and with the
\* "can only retry failed settlements" error otherwise (the status is checked
\* first); it makes no gateway call and changes nothing; retry_count <= 3 in
\* every reachable state.
C8_RetryLimit ==
    /\ [][\A p \in Procs, sid \in SettlementIds :
             (RetryStarts(p, sid) /\ settlements[sid].retry_count >= 3) =>
                 /\ pc'[p] = "idle"
                 /\ ret'[p] = IF settlements[sid].status = "failed"
                              THEN "max_retries" ELSE "not_failed"
                 /\ NothingMoves]_vars
    /\ []RetryCountBounded

\* A retry was refused with the maximum-retries error on a failed settlement
\* that had been retried three times.
C8_Witness ==
    \E p \in Procs :
        /\ op[p] = "retry" /\ ret[p] = "max_retries"
        /\ settlements[arg[p]].status = "failed"
        /\ settlements[arg[p]].retry_count = 3

\* C9: in the retry sequence where every attempt fails: a first attempt that
\* fails at the gateway leaves a failed Settlement with retry_count 0; a retry
\* that was let in counts exactly one more attempt; and when it fails, the
\* Settlement is left failed.
C9_RetrySequence ==
    [][\A p \in Procs :
          /\ (op[p] = "initiate" /\ pc[p] = "transfer" /\ ret'[p] = "gateway_error") =>
                 \E s \in DOMAIN settlements' :
                     /\ settlements'[s].order = ord[p].order_id
                     /\ settlements'[s].status = "failed"
                     /\ settlements'[s].retry_count = 0
          /\ (pc[p] = "retry_save" /\ pc'[p] # "retry_save") =>
                 settlements'[arg[p]].retry_count = settlements[arg[p]].retry_count + 1
          /\ (op[p] = "retry" /\ pc[p] # "idle" /\ pc'[p] = "idle" /\ ret'[p] # "ok") =>
                 settlements'[arg[p]].status = "failed"]_vars

\* C10: reverse_settlement on a Settlement that is not completed, or that has no
\* transfer id, fails at once without calling reverse_transfer and without
\* changing any row; reverse_transfer is only called by a request holding a
\* completed Settlement with a transfer id.
C10_ReverseRefused ==
    [][/\ \A p \in Procs, sid \in SettlementIds :
             (/\ ReverseStarts(p, sid)
              /\ \/ settlements[sid].status # "completed"
                 \/ settlements[sid].razorpay_transfer_id = 0) =>
                 /\ pc'[p] = "idle"
                 /\ ret'[p] \in {"not_completed", "no_transfer_id"}
                 /\ NothingMoves
       /\ reverseCalls' # reverseCalls =>
             \E p \in Procs : /\ pc[p] = "reverse"
                              /\ stl[p].status = "completed"
                              /\ stl[p].razorpay_transfer_id # 0]_vars

\* A reversal was refused on a settlement that had already been reversed.
C10_Witness ==
    \E p \in Procs :
        /\ op[p] = "reverse" /\ ret[p] = "not_completed"
        /\ settlements[arg[p]].status = "reversed"
        /\ reverseCalls = 1

\* process_settlement would let the committed order row in: the validations
\* pass, the newest settlement row of the order is no conflict and
\* get_or_create finds at most one row (in the state after the step).
AcceptedAfter(o) ==
    LET rows == { s \in DOMAIN settlements' : settlements'[s].order = o }
    IN  /\ Validate(orders'[o]) = "ok"
        /\ Cardinality(rows) <= 1
        /\ \A s \in rows : settlements'[s].status \notin ConflictStatuses

\* C11: when reverse_settlement ends successfully, the Settlement is reversed
\* and its order is back to settlement_status pending with transfer id and
\* settled_at cleared, and process_settlement accepts the order again.
C11_ReversalResetsOrder ==
    [][\A p \in Procs :
          /\ (op[p] = "reverse" /\ pc[p] = "reverse" /\ pc'[p] = "reverse_order") =>
                 settlements'[arg[p]].status = "reversed"
          /\ (op[p] = "reverse" /\ pc[p] = "reverse_order" /\ pc'[p] = "idle") =>
                 /\ ret'[p] = "ok"
                 /\ orders'[ord[p].order_id].settlement_status = "pending"
                 /\ orders'[ord[p].order_id].razorpay_transfer_id = 0
                 /\ orders'[ord[p].order_id].settled_at = FALSE
                 /\ AcceptedAfter(ord[p].order_id)]_vars

\* An order was settled, the settlement reversed, and the order settled again
\* through the same settlement row.
C11_Witness ==
    \E o \in Orders :
        /\ Cardinality(TransfersOf(o)) = 2
        /\ Cardinality(LiveTransfersOf(o)) = 1
        /\ reverseCalls = 1
        /\ orders[o].settlement_status = "completed"
        /\ Cardinality(SettlementsOf(o)) = 1

\* ------------------------------------------ payment paths, step by step
\* verify and the payment.captured webhook read the order row into an instance
\* and write it back later with save(), which writes every column of the row
\* from the instance.  Here the two steps of a request are separate, so that
\* other requests (the other payment path, a settlement) can run in between.
MaxPathCalls == 3

\* views.py:339 (verify) and 557-567 (webhook): handler p reads order o.
LoadPaid(p, kind, o) ==
    /\ calls < MaxPathCalls
    /\ pc[p] = "idle"
    /\ o \in Orders /\ orders[o].is_active
    /\ calls' = calls + 1
    /\ op' = [op EXCEPT ![p] = kind]
    /\ arg' = [arg EXCEPT ![p] = o]
    /\ ord' = [ord EXCEPT ![p] = orders[o]]
    /\ pc' = [pc EXCEPT ![p] = "save_paid"]
    /\ ret' = [ret EXCEPT ![p] = "running"]
    /\ UNCHANGED <<dbVars, gwVars, adminEdits, stl, txOrd, txStl, queue, results>>
    /\ UNCHANGED shopVars

LoadVerify(p, o) == LoadPaid(p, "verify", o)

LoadCaptured(p, ref) == LoadPaid(p, "webhook", CapturedOrder(ref, "pay"))

\* views.py:360-368 (verify, payment captured) and 569-578 (webhook):
\* order.status, order.razorpay_payment_id, order.save(), cart items cleared.
\* The UPDATE waits while another transaction holds the row.
SavePaid(p) ==
    /\ pc[p] = "save_paid"
    /\ ~OrderLockedByOther(p, ord[p].order_id)
    /\ orders' = [orders EXCEPT ![ord[p].order_id] = SavedOrder(PaidOrder(ord[p], "pay"))]
    /\ cart' = ClearedCart
    /\ outbox' = [outbox EXCEPT !.marked_processing =
                     IF op[p] = "webhook" THEN @ + 1 ELSE @]
    /\ response' = "200"
    /\ pc' = [pc EXCEPT ![p] = "idle"]
    /\ ord' = [ord EXCEPT ![p] = Null]
    /\ ret' = [ret EXCEPT ![p] = "ok"]
    /\ UNCHANGED <<settlements, gwVars, calls, adminEdits, op, arg, stl, txOrd, txStl,
                   queue, results, stock, webhook_secret>>

\* Order 1 is delivered, paid and ready to settle; order 2 is just checked out.
InitPaths ==
    /\ orders = (1 :> OrderProfiles(1)[1]) @@ (2 :> NewOrder(2, 1, "Pending", 99999, ""))
    /\ InitRest
    /\ InitStore
    /\ webhook_secret = "whsec"

\* Handler 1 serves settlement or payment requests, handler 2 payment requests.
NextPaths ==
    \/ calls < MaxPathCalls /\ \E o \in Orders : StartInitiate(1, o)
    \/ Enter(1) \/ Lookup(1) \/ Upsert(1) \/ Initiate(1)
    \/ TransferFails(1) \/ TransferSucceeds(1)
    \/ \E p \in Procs, o \in Orders : LoadVerify(p, o)
    \/ \E p \in Procs, ref \in Orders \cup {0} : LoadCaptured(p, ref)
    \/ \E p \in Procs : SavePaid(p)

SpecPaths == InitPaths /\ [][NextPaths]_vars

\* ---------------------------------------------------------------- webhooks
\* The signature of a delivery equals the HMAC of its body under the shared
\* secret exactly when it was computed with that secret as key.
WebhookDelivered(ev, ref, key) == RazorpayWebhook(ev, ref, "pay", PaiseAmount, key)

\* C12: a webhook request whose signature is not the HMAC of the body under
\* the configured secret (whatever the secret, the empty one included) changes
\* no order, cart item or settlement and is answered with an error.
C12_BadSignatureRejected ==
    [][\A ev \in WebhookEvents, ref \in Orders \cup {0}, key \in WebhookKeys :
          (key # webhook_secret /\ WebhookDelivered(ev, ref, key)) =>
              /\ UNCHANGED <<orders, cart, settlements>>
              /\ response' = "400_invalid_signature"]_vars

\* C13: a payment.captured delivery repeated right after an accepted one finds
\* the order Processing with the same payment id and the buyer's cart items
\* inactive, would leave every order and cart row as the first left them, and
\* no delivery touches the settlement ledger or the gateway.
C13_CapturedTwiceIsNoOp ==
    [][\A ref \in Orders \cup {0}, key \in WebhookKeys :
          (~SignatureRefused(key) /\ WebhookDelivered("payment.captured", ref, key)) =>
              /\ AfterCaptured(ref, "pay")' = [orders |-> orders', cart |-> cart']
              /\ CapturedOrder(ref, "pay") # 0 =>
                     /\ CapturedOrder(ref, "pay")' = CapturedOrder(ref, "pay")
                     /\ orders'[CapturedOrder(ref, "pay")].status = "Processing"
                     /\ orders'[CapturedOrder(ref, "pay")].razorpay_payment_id = "pay"
                     /\ cart' = ClearedCart
              /\ UNCHANGED <<settlements, gwVars>>]_vars

\* The same delivery was accepted twice in a row.
C13_Witness ==
    /\ calls = 2
    /\ outbox.marked_processing = 2
    /\ \E o \in Orders : /\ orders[o].status = "Processing"
                         /\ orders[o].razorpay_payment_id = "pay"
                         /\ \A q \in Orders \ {o} : orders[q].status = "Pending"

\* C14: a payment.captured delivery never changes the status of an order that
\* is Shipped, Delivered, Cancelled or Failed.
C14_CapturedNeverMovesBack ==
    [][\A ref \in Orders \cup {0}, key \in WebhookKeys, o \in Orders :
          (/\ WebhookDelivered("payment.captured", ref, key)
           /\ orders[o].status \in {"Shipped", "Delivered", "Cancelled", "Failed"}) =>
              orders'[o].status = orders[o].status]_vars

\* ------------------------------------------------- settlement status edges
\* settlement_service.py:91-92, 111-114, 129-130, 278-282: the settlement_status
\* last saved for order o, by the open transaction that holds the row or else
\* the committed one.
RowStatus(o) ==
    IF \E p \in Procs : txOrd[p] # Null /\ txOrd[p].order_id = o
    THEN LET p == CHOOSE q \in Procs : txOrd[q] # Null /\ txOrd[q].order_id = o
         IN  ord[p].settlement_status
    ELSE orders[o].settlement_status

ListedEdges ==
    { <<"pending", "initiated">>, <<"initiated", "completed">>,
      <<"pending", "failed">>, <<"initiated", "failed">>,
      <<"failed", "initiated">>, <<"completed", "pending">> }

\* C15: the settlement_status saved for an order changes only along
\* pending -> initiated, initiated -> completed, pending -> failed,
\* initiated -> failed, failed -> initiated and completed -> pending.
C15_OnlyListedEdges ==
    [][\A o \in Orders :
          RowStatus(o)' # RowStatus(o) =>
              <<RowStatus(o), RowStatus(o)'>> \in ListedEdges]_vars

\* ------------------------------------------------------ order status edges
OrderStatusEdges ==
    { <<"Pending", "Processing">>, <<"Processing", "Shipped">>,
      <<"Shipped", "Delivered">>,
      <<"Pending", "Cancelled">>, <<"Processing", "Cancelled">>,
      <<"Pending", "Failed">>, <<"Processing", "Failed">>, <<"Shipped", "Failed">> }

\* C16: whichever view writes it, an order's status changes only along
\* Pending -> Processing -> Shipped -> Delivered, Pending/Processing ->
\* Cancelled and non-terminal -> Failed; a Delivered, Cancelled or Failed
\* order keeps its status for good.
C16_OnlyLifecycleEdges ==
    [][\A o \in Orders :
          orders'[o].status # orders[o].status =>
              <<orders[o].status, orders'[o].status>> \in OrderStatusEdges]_vars

\* --------------------------------------------------------------- the sweep
\* The sweep of handler p ends the processing of one order in this step.
SweepCounts(p) ==
    op[p] = "auto" /\ pc[p] \notin {"idle", "auto_next"} /\ pc'[p] = "auto_next"

Counted(p, field) ==
    /\ results'[p][field] = results[p][field] + 1
    /\ \A f \in {"successful", "skipped", "failed"} \ {field} :
           results'[p][f] = results[p][f]
    /\ results'[p].total = results[p].total

\* C17: the summary of a sweep has total = successful + skipped + failed = the
\* number of orders selected; an order is counted successful when its
\* settlement ended completed, skipped when it was rejected for a precondition
\* (before anything was written or sent), failed when the transfer attempt or
\* what follows it raised.
C17_SweepSummary ==
    [][\A p \in Procs :
          /\ (op'[p] = "auto" /\ pc'[p] = "idle") =>
                 results'[p].total =
                     results'[p].successful + results'[p].skipped + results'[p].failed
          /\ SweepCounts(p) =>
                 IF pc[p] # "transfer" THEN Counted(p, "skipped") /\ NothingMoves
                 ELSE IF orders'[ord[p].order_id].settlement_status = "completed"
                 THEN Counted(p, "successful")
                 ELSE Counted(p, "failed")]_vars

\* ------------------------------------------------------------ cancellation
\* C18: a request to cancel an order that is Shipped or Delivered is answered
\* with an error and leaves the order's status, its active flag and the stock
\* of every product as they were.
C18_LateCancelRejected ==
    [][\A o \in Orders :
          (CancelOrder(o) /\ orders[o].status \in {"Shipped", "Delivered"}) =>
              /\ response' \in {"400_cannot_cancel", "400_inactive"}
              /\ orders'[o].status = orders[o].status
              /\ orders'[o].is_active = orders[o].is_active
              /\ stock' = stock]_vars

\* A Shipped order, its stock deducted, whose cancellation was just refused.
C18_Witness ==
    /\ response = "400_cannot_cancel"
    /\ stock # InitialStock
    /\ \E o \in Orders : orders[o].status = "Shipped" /\ orders[o].is_active

\* Units of product prod on the lines of order o.
RECURSIVE LineQuantity(_, _)
LineQuantity(items, prod) ==
    IF items = << >> THEN 0
    ELSE (IF Head(items).product = prod THEN Head(items).quantity ELSE 0)
         + LineQuantity(Tail(items), prod)

\* Units of product prod on the lines of the orders of S.
RECURSIVE UnitsOrdered(_, _)
UnitsOrdered(S, prod) ==
    IF S = {} THEN 0
    ELSE LET o == CHOOSE x \in S : TRUE
         IN  LineQuantity(OrderDetails(o), prod) + UnitsOrdered(S \ {o}, prod)

\* C19: once an order is cancelled none of its line items stays taken out of
\* stock: what is missing from a product's stock is covered by the lines of
\* the orders that are not cancelled.
C19_CancelledHoldsNoStock ==
    \A prod \in Products :
        InitialStock[prod] - stock[prod] <=
            UnitsOrdered({ o \in Orders : orders[o].status # "Cancelled" }, prod)

\* C20: a successful cancellation sends one refund request when the order was
\* Processing and none otherwise (none for a Pending order); nothing else
\* sends one.
C20_RefundIffProcessing ==
    [][/\ \A o \in Orders :
             (CancelOrder(o) /\ response' = "200_cancelled") =>
                 outbox'.refund_request =
                     outbox.refund_request + (IF orders[o].status = "Processing" THEN 1 ELSE 0)
       /\ outbox'.refund_request # outbox.refund_request =>
             \E o \in Orders : CancelOrder(o) /\ response' = "200_cancelled"]_vars

\* A Processing order and a Pending order were cancelled; one refund request
\* was sent.
C20_Witness ==
    /\ outbox.order_cancelled = 2
    /\ outbox.refund_request = 1
    /\ \A o \in Orders : orders[o].status = "Cancelled"

\* C21: a webhook request with a valid signature and a body that is
\* well-formed JSON is answered with the success acknowledgment, whether or not
\* the order of a payment.captured or payment.failed event is found; when it
\* is not found no row changes.
C21_ValidWebhookAcknowledged ==
    [][\A ev \in WebhookEvents, ref \in Orders \cup {0}, key \in WebhookKeys,
         amount \in WebhookAmounts :
          (~SignatureRefused(key) /\ RazorpayWebhook(ev, ref, "pay", amount, key)) =>
              /\ response' = "200"
              /\ (ev = "payment.captured" /\ CapturedOrder(ref, "pay") = 0) =>
                     UNCHANGED <<orders, cart, settlements>>
              /\ (ev = "payment.failed" /\ ~(ref \in Orders /\ orders[ref].is_active)) =>
                     UNCHANGED <<orders, cart, settlements>>]_vars

\* ------------------------------------------------------ settlement rows
OpenSettlementsOf(o) ==
    { s \in SettlementsOf(o) : settlements[s].status \in {"pending", "processing"} }

\* C22: an order never has more than one Settlement row that is pending or
\* processing, concurrent process_settlement and retry calls included.
C22_OneOpenSettlement ==
    \A o \in Orders : Cardinality(OpenSettlementsOf(o)) <= 1

\* C23: a Settlement row that is reversed stays reversed, with its transfer id
\* and reversal payload, through every later service operation (operator edits
\* in the admin site aside), a later process_settlement of its order included.
C23_ReversedStaysReversed ==
    [][adminEdits' = adminEdits =>
          \A s \in SettlementIds :
              settlements[s].status = "reversed" =>
                  /\ s \in DOMAIN settlements'
                  /\ settlements'[s].status = "reversed"
                  /\ settlements'[s].razorpay_transfer_id = settlements[s].razorpay_transfer_id
                  /\ settlements'[s].reversal = settlements[s].reversal]_vars

\* ------------------------------------------------- status writes and settlement
\* The settlement columns of an order row.
SettlementColumns(order) ==
    <<order.settlement_status, order.razorpay_transfer_id, order.settled_at>>

\* C24: a request that writes an order's status (here verify and the
\* payment.captured webhook) leaves the order's settlement_status, transfer id
\* and settled_at and every Settlement row as they were.
C24_StatusWritesLeaveSettlement ==
    [][\A p \in Procs :
          (pc[p] = "save_paid" /\ pc'[p] = "idle") =>
              /\ SettlementColumns(orders'[arg[p]]) = SettlementColumns(orders[arg[p]])
              /\ settlements' = settlements]_vars

\* ---------------------------------------------------------------- reversal
\* The order row carries no trace of a settlement.
OrderIsReset(order) ==
    /\ order.settlement_status = "pending"
    /\ order.razorpay_transfer_id = 0
    /\ order.settled_at = FALSE

\* C25: a reversal the gateway refuses ends with the exception and changes no
\* row; a reversal the gateway performs makes the Settlement reversed and
\* resets its order together: no committed state has the one without the
\* other.
C25_ReversalAllOrNothing ==
    [][/\ \A p \in Procs :
             (op[p] = "reverse" /\ pc[p] = "reverse" /\ transfers' = transfers) =>
                 /\ ret'[p] = "gateway_error"
                 /\ UNCHANGED <<orders, settlements>>
       /\ \A s \in SettlementIds :
             (settlements[s].status # "reversed" /\ settlements'[s].status = "reversed") =>
                 OrderIsReset(orders'[settlements[s].order])]_vars

\* ------------------------------------------------------- the two payment paths
\* verify and the payment.captured webhook, and nothing else, have both been
\* served for order o.
BothPathsServed(o) ==
    /\ calls = 2
    /\ {op[1], op[2]} = {"verify", "webhook"}
    /\ arg[1] = o /\ arg[2] = o
    /\ pc[1] = "idle" /\ pc[2] = "idle"

\* C26: when verify and the payment.captured webhook have both run for an
\* order, in either order and however their reads and writes interleave, the
\* order is Processing with the payment id stored and the buyer's cart items
\* are inactive.
C26_PathsAgree ==
    \A o \in Orders :
        BothPathsServed(o) =>
            /\ orders[o].status = "Processing"
            /\ orders[o].razorpay_payment_id = "pay"
            /\ cart = ClearedCart

\* The webhook has written the order while verify still holds the instance it
\* read before.
C26_Witness ==
    \E o \in Orders :
        /\ calls = 2
        /\ op[1] = "webhook" /\ arg[1] = o /\ pc[1] = "idle"
        /\ op[2] = "verify" /\ arg[2] = o /\ pc[2] = "save_paid"
        /\ ord[2].status = "Pending"
        /\ orders[o].status = "Processing"

\* ------------------------------------------------------------------- stock
BecomesShipped(o) == orders[o].status # "Shipped" /\ orders'[o].status = "Shipped"

\* C27: whichever view moves an order to Shipped, the step takes each line's
\* quantity out of its product's stock, and stock is taken out in no other
\* step: once per order, however often Shipped is requested.
C27_ShippedDeductsOnce ==
    [][/\ \A o \in Orders :
             BecomesShipped(o) =>
                 \A prod \in Products :
                     stock'[prod] = stock[prod] - LineQuantity(OrderDetails(o), prod)
       /\ stock' # stock => \E o \in Orders : BecomesShipped(o)]_vars

SettlingStatuses == {"initiated", "completed", "failed"}

\* C28: in every state, an order whose settlement_status is initiated,
\* completed or failed has status Delivered; no later status write takes
\* a settled or settling order out of Delivered.
C28_SettledStaysDelivered ==
    \A o \in Orders :
        orders[o].settlement_status \in SettlingStatuses =>
            orders[o].status = "Delivered"

NoOperationRunning == \A p \in Procs : pc[p] = "idle"

\* C29: once every settlement operation has returned or raised, no Settlement
\* row is left in status processing: each one is completed, failed or
\* reversed, so none is stuck where both retry and initiate refuse it.
C29_NoneStuckProcessing ==
    NoOperationRunning =>
        \A s \in DOMAIN settlements :
            settlements[s].status \in {"completed", "failed", "reversed"}

MaxAttempts == 1 + MaxRetries

HasFailedSettlement(o) == \E s \in SettlementsOf(o) : settlements[s].status = "failed"

\* C30: the create_transfer attempts for one order between reversals number
\* at most 4 (one initial attempt and 3 retries), and an attempt on an order
\* whose Settlement is failed is made by retry_failed_settlement only, never
\* by a direct process_settlement call that retry_count does not count.
C30_AttemptsCounted ==
    [][\A o \in Orders :
          createCalls'[o] # createCalls[o] =>
              /\ reverseCalls = 0 => createCalls'[o] <= MaxAttempts
              /\ HasFailedSettlement(o) =>
                     \E p \in Procs : op[p] = "retry" /\ pc[p] # "idle"]_vars

====
